---- MODULE Spec2Model ----
(***************************************************************************)
(* The job store and the model-capability resolver of src/main.py          *)
(* (Jaydens Message API): the global list `jobs`, the file data/jobs.json, *)
(* the handlers create_job, list_jobs, get_job and list_models.            *)
(*                                                                         *)
(* One process, one asyncio event loop: a handler runs without             *)
(* interruption between two awaits.  The only await of the program is      *)
(* `await image.read()` in create_job (line 112); the upstream call        *)
(* (line 128) is a blocking call, so everything from the last image read   *)
(* to `return job` is one step.                                            *)
(***************************************************************************)
EXTENDS Naturals, Sequences, FiniteSets

VARIABLES
    jobs,       \* the global list `jobs` (line 77)
    file,       \* the contents of data/jobs.json (JOBS_FILE, line 23)
    handlers,   \* the create_job coroutines suspended at `await image.read()`
    resp,       \* the HTTP response most recently sent, with its request
    returned,   \* history: the jobs returned by create_job, in order of return
    lastSave,   \* history: outcome of the latest save_jobs ("none" before any)
    loaded,     \* history: the jobs load_jobs returned at startup (line 77)
    overlapped, \* history: a create_job returned while another was suspended
    models_resp, \* the response list_models sent last
    catalogue   \* the models the provider lists (openai.models.list(), line 167)

vars == <<jobs, file, handlers, resp, returned, lastSave, loaded, overlapped,
          models_resp, catalogue>>

-----------------------------------------------------------------------------
(* Bounds of the model *)

MaxJobs == 2        \* create_job is not started once the store holds MaxJobs
MaxImages == 2      \* at most MaxImages uploads per request
MaxModels == 1      \* the provider lists at most MaxModels models
MaxSuffix == 1      \* characters that follow a cut table key in an identifier

Handlers == {"h1", "h2"}                \* concurrent create_job requests
Prompts == {"Hello"}
VisionModel == "gpt-4o-2024-11-20"      \* line 121
DefaultModel == "gpt-3.5-turbo"         \* line 100
CallerModels == {DefaultModel, "no-such-model"}
Responses == {"Hi there"}
\* str(uuid.uuid4())[:5].lower(): five hexadecimal digits, 16^5 values;
\* two of them stand for all
Tokens == {"3f9a1", "c07de"}
\* datetime.now(): seconds and microseconds
Times == [sec : {0}, micro : {0, 250}]
UpstreamErrors == {"model_not_found", "connection error"}
ReadError == "read error"
ValidationError == "validation error: response none is not an allowed value"

-----------------------------------------------------------------------------
(* class Job and its serialised form *)

\* isoformat(timespec='seconds'): the microseconds are dropped
isoformat_seconds(dt) == <<dt.sec>>

\* datetime.isoformat (line 55): the fraction is omitted when microsecond = 0
isoformat(dt) == IF dt.micro = 0 THEN <<dt.sec>> ELSE <<dt.sec, dt.micro>>

\* datetime.fromisoformat (line 64) accepts exactly the two forms above
iso_ok(s) == Len(s) \in {1, 2}

fromisoformat(s) ==
    IF Len(s) = 1 THEN [sec |-> s[1], micro |-> 0]
                  ELSE [sec |-> s[1], micro |-> s[2]]

JobFields == {"id", "content", "model", "response", "created_at", "status"}

\* json.loads(job.json()) (line 72)
to_json(job) ==
    [id |-> job.id, content |-> job.content, model |-> job.model,
     response |-> job.response, created_at |-> isoformat(job.created_at),
     status |-> job.status]

\* Job(**{**job, 'created_at': datetime.fromisoformat(job['created_at'])})
\* (line 64) raises when a field is missing or the timestamp does not parse
record_ok(rec) ==
    /\ JobFields \subseteq DOMAIN rec
    /\ iso_ok(rec.created_at)

from_json(rec) ==
    [id |-> rec.id, content |-> rec.content, model |-> rec.model,
     response |-> rec.response, created_at |-> fromisoformat(rec.created_at),
     status |-> rec.status]

Absent == [kind |-> "absent", data |-> <<>>]
Corrupt == [kind |-> "corrupt", data |-> <<>>]

\* the file written before the new job was appended
save_jobs_stale(js) ==
    [kind |-> "json", data |-> [i \in 1..(Len(js) - 1) |-> to_json(js[i])]]

\* save_jobs (lines 69-72), the write that succeeds
save_jobs(js) == [kind |-> "json", data |-> [i \in DOMAIN js |-> to_json(js[i])]]

RECURSIVE parse_good(_)
parse_good(data) ==
    IF data = <<>> THEN <<>>
    ELSE IF record_ok(Head(data)) THEN <<from_json(Head(data))>> \o parse_good(Tail(data))
    ELSE parse_good(Tail(data))

\* a load_jobs that skips the records it cannot parse
load_jobs_partial(f) == IF f.kind = "json" THEN parse_good(f.data) ELSE <<>>

\* load_jobs (lines 58-67)
load_jobs(f) ==
    IF f.kind = "absent" THEN <<>>
    ELSE IF f.kind = "corrupt" \/ \E i \in DOMAIN f.data : ~record_ok(f.data[i])
         THEN <<>>
         ELSE [i \in DOMAIN f.data |-> from_json(f.data[i])]

-----------------------------------------------------------------------------
(* create_job's pure parts *)

\* line 136
new_id(token) == <<"llmjobid:", token>>

\* lines 135-142
make_job(prompt, model, response, now, token) ==
    [id |-> new_id(token), content |-> prompt, model |-> model,
     response |-> response, created_at |-> now, status |-> "completed"]

\* no override of the caller's model
effective_model_caller(model, images) == model

\* lines 106-125: `if images:` is false for None and for the empty list
effective_model(model, images) == IF images THEN VisionModel ELSE model

\* jobs.insert(0, job)
append_job_front(js, job) == <<job>> \o js

\* jobs.append(job) (line 145)
append_job(js, job) == Append(js, job)

\* get_job (lines 158-161): the first job with the identifier, or 404
RECURSIVE first_with_id(_, _, _)
first_with_id(js, job_id, i) ==
    IF i > Len(js) THEN 0
    ELSE IF js[i].id = job_id THEN i
    ELSE first_with_id(js, job_id, i + 1)

NoJob == make_job("", "", "", [sec |-> 0, micro |-> 0], "")
\* a request: the form fields of POST /job (images: whether any is attached)
\* or the path parameter of GET /jobs/{job_id}
NoReq == [prompt |-> "", model |-> "", images |-> FALSE, job_id |-> <<>>]
NoResp == [op |-> "none", status |-> 0, job |-> NoJob, detail |-> "",
           list |-> <<>>, sent |-> "", req |-> NoReq]

\* a coroutine of create_job: its arguments and the images still to read
Idle == [pc |-> "idle", prompt |-> "", model |-> "", left |-> 0]

-----------------------------------------------------------------------------
(* list_models (lines 163-273).  Identifiers are sequences of characters;   *)
(* the values of the table are written as they are rendered.               *)

GPT4V == <<"g", "p", "t", "-", "4", "-", "v", "i", "s", "i", "o", "n", "-", "p", "r", "e", "v", "i", "e", "w">>
GPT4 == <<"g", "p", "t", "-", "4">>
GPT35 == <<"g", "p", "t", "-", "3", ".", "5", "-", "t", "u", "r", "b", "o">>
DALLE3 == <<"d", "a", "l", "l", "-", "e", "-", "3">>
DALLE2 == <<"d", "a", "l", "l", "-", "e", "-", "2">>

capability(ti, to, ii, io, reasoning, speed, pricing) ==
    [text_input |-> ti, text_output |-> to, image_input |-> ii,
     image_output |-> io, reasoning |-> reasoning, speed |-> speed,
     pricing |-> pricing]

\* lines 170-232, in declaration order (a dict keeps insertion order)
model_capabilities == <<
    [key |-> GPT4V, caps |-> capability("True", "True", "True", "False", "5", "3",
        [input |-> "0.01", output |-> "0.03", image |-> "0.02"])],
    [key |-> GPT4, caps |-> capability("True", "True", "False", "False", "5", "3",
        [input |-> "0.01", output |-> "0.03"])],
    [key |-> GPT35, caps |-> capability("True", "True", "False", "False", "3", "5",
        [input |-> "0.0005", output |-> "0.0015"])],
    [key |-> DALLE3, caps |-> capability("True", "False", "False", "True", "4", "2",
        [input |-> "0.04", output |-> "0.08"])],
    [key |-> DALLE2, caps |-> capability("True", "False", "False", "True", "3", "4",
        [input |-> "0.02", output |-> "0.02"])] >>

\* lines 245-256
not_found ==
    capability("Not found", "Not found", "Not found", "Not found", "Not found",
               "Not found", [input |-> "Not found", output |-> "Not found"])

\* str.startswith (line 240)
startswith(s, prefix) ==
    Len(prefix) <= Len(s) /\ SubSeq(s, 1, Len(prefix)) = prefix

\* the loop of lines 239-242 without its break: the last match stays
RECURSIVE last_match(_, _, _)
last_match(model_id, k, found) ==
    IF k > Len(model_capabilities) THEN found
    ELSE last_match(model_id, k + 1,
                    IF startswith(model_id, model_capabilities[k].key) THEN k ELSE found)

resolve_no_break(model_id) ==
    LET k == last_match(model_id, 1, 0)
    IN IF k = 0 THEN not_found ELSE model_capabilities[k].caps

\* lines 238-242: the first key the identifier starts with, 0 when none
RECURSIVE first_match(_, _)
first_match(model_id, k) ==
    IF k > Len(model_capabilities) THEN 0
    ELSE IF startswith(model_id, model_capabilities[k].key) THEN k
    ELSE first_match(model_id, k + 1)

\* lines 238-256
resolve(model_id) ==
    LET k == first_match(model_id, 1)
    IN IF k = 0 THEN not_found ELSE model_capabilities[k].caps

\* lines 258-269
format_model(model) ==
    LET matching_capabilities == resolve(model.id)
    IN [id |-> model.id, object |-> model.object, created |-> model.created,
        owned_by |-> model.owned_by, capabilities |-> matching_capabilities,
        metrics |-> [reasoning |-> matching_capabilities.reasoning,
                     speed |-> matching_capabilities.speed],
        pricing |-> matching_capabilities.pricing]

NoModels == [status |-> 0, models |-> <<>>, detail |-> ""]

-----------------------------------------------------------------------------
(* Startup (lines 21-23, 77) *)

StoredJob == make_job("Hello", DefaultModel, "Hi there", [sec |-> 0, micro |-> 250], "3f9a1")
\* a record without its "response" field
MissingField == [id |-> new_id("c07de"), content |-> "Hello", model |-> DefaultModel,
                 created_at |-> <<0>>, status |-> "completed"]
\* a record whose created_at does not parse
BadTimestamp == [to_json(StoredJob) EXCEPT !.created_at = <<>>]

StartFiles ==
    { Absent, Corrupt,
      save_jobs(<<StoredJob>>),
      [kind |-> "json", data |-> <<to_json(StoredJob), MissingField>>],
      [kind |-> "json", data |-> <<to_json(StoredJob), BadTimestamp>>] }

Init ==
    /\ file \in StartFiles
    /\ jobs = load_jobs(file)
    /\ loaded = jobs
    /\ handlers = [h \in Handlers |-> Idle]
    /\ resp = NoResp
    /\ returned = <<>>
    /\ lastSave = "none"
    /\ overlapped = FALSE
    /\ models_resp = NoModels
    /\ catalogue = <<>>

-----------------------------------------------------------------------------
(* The upstream provider: openai.chat.completions.create (lines 128-132) *)

\* an unknown model is always refused; any call may fail otherwise
may_raise(model, e) == model = "no-such-model" => e = "model_not_found"
may_answer(model) == model # "no-such-model"

-----------------------------------------------------------------------------
(* Responses *)

Respond(op, status, job, detail, list, sent, req) ==
    resp' = [op |-> op, status |-> status, job |-> job,
             detail |-> detail, list |-> list, sent |-> sent, req |-> req]

\* raise HTTPException(status_code=500, detail=str(e)) (lines 149-150)
Http500(detail, sent, req) == Respond("create", 500, NoJob, detail, <<>>, sent, req)

Suspended(hs) == {h \in Handlers : hs[h].pc = "reading"}

-----------------------------------------------------------------------------
(* create_job from the upstream call to its end (lines 127-150); hs is the  *)
(* handler table once this request has left it                             *)

\* the failure is recorded as a job before the 500
UpstreamFailRecorded(req, hs, e) ==
    /\ may_raise(effective_model(req.model, req.images), e)
    /\ Http500(e, effective_model(req.model, req.images), req)
    /\ handlers' = hs
    /\ jobs' = Append(jobs, [make_job(req.prompt, req.model, e, [sec |-> 0, micro |-> 0],
                                      "3f9a1") EXCEPT !.status = "failed"])
    /\ UNCHANGED <<file, returned, lastSave, loaded, overlapped, models_resp, catalogue>>

\* line 128 raises
UpstreamFail(req, hs, e) ==
    /\ may_raise(effective_model(req.model, req.images), e)
    /\ Http500(e, effective_model(req.model, req.images), req)
    /\ handlers' = hs
    /\ UNCHANGED <<jobs, file, returned, lastSave, loaded, overlapped, models_resp, catalogue>>

\* the reply carries no text: Job(response=None) raises (lines 135-142)
ResponseInvalid(req, hs) ==
    /\ may_answer(effective_model(req.model, req.images))
    /\ Http500(ValidationError, effective_model(req.model, req.images), req)
    /\ handlers' = hs
    /\ UNCHANGED <<jobs, file, returned, lastSave, loaded, overlapped, models_resp, catalogue>>

\* lines 135-148, save_jobs writes the file
CreateSaved(req, hs, job) ==
    /\ may_answer(job.model)
    /\ jobs' = append_job(jobs, job)
    /\ file' = save_jobs(jobs')
    /\ lastSave' = "ok"
    /\ Respond("create", 200, job, "", <<>>, job.model, req)
    /\ returned' = Append(returned, job)
    /\ handlers' = hs
    /\ overlapped' = (overlapped \/ Suspended(hs) # {})
    /\ UNCHANGED <<loaded, models_resp, catalogue>>

\* save_jobs lets the write error through to create_job's except clause
CreateSaveRaises(req, hs, job) ==
    /\ may_answer(job.model)
    /\ jobs' = append_job(jobs, job)
    /\ file' \in {file, Corrupt}
    /\ lastSave' = "failed"
    /\ Http500("write error", job.model, req)
    /\ handlers' = hs
    /\ UNCHANGED <<returned, loaded, overlapped, models_resp, catalogue>>

\* lines 135-148, save_jobs fails and prints (lines 73-74): open() fails and
\* the file is as it was, or the write fails after open() truncated it
CreateSaveFailed(req, hs, job) ==
    /\ may_answer(job.model)
    /\ jobs' = append_job(jobs, job)
    /\ file' \in {file, Corrupt}
    /\ lastSave' = "failed"
    /\ Respond("create", 200, job, "", <<>>, job.model, req)
    /\ returned' = Append(returned, job)
    /\ handlers' = hs
    /\ overlapped' = (overlapped \/ Suspended(hs) # {})
    /\ UNCHANGED <<loaded, models_resp, catalogue>>

NewJobs(req) ==
    { make_job(req.prompt, effective_model(req.model, req.images), r, now, t) :
        r \in Responses, now \in Times, t \in Tokens }

Finish(req, hs) ==
    \/ \E e \in UpstreamErrors : UpstreamFail(req, hs, e)
    \/ ResponseInvalid(req, hs)
    \/ \E job \in NewJobs(req) : CreateSaved(req, hs, job)
    \/ \E job \in NewJobs(req) : CreateSaveFailed(req, hs, job)

InFlight == Cardinality({h \in Handlers : handlers[h].pc # "idle"})
Room == Len(jobs) + InFlight < MaxJobs

-----------------------------------------------------------------------------
(* The handlers *)

\* POST /job without images (None or empty list): no await, one step
CreateJobText(prompt, model) ==
    /\ Room
    /\ Finish([prompt |-> prompt, model |-> model, images |-> FALSE, job_id |-> <<>>],
              handlers)

\* POST /job with images: runs to the first `await image.read()` (line 112)
CreateJobImages(h, prompt, model, nimages) ==
    /\ Room
    /\ nimages > 0
    /\ handlers[h].pc = "idle"
    /\ handlers' = [handlers EXCEPT ![h] =
         [pc |-> "reading", prompt |-> prompt, model |-> model, left |-> nimages]]
    /\ UNCHANGED <<jobs, file, resp, returned, lastSave, loaded, overlapped, models_resp, catalogue>>

\* an image is read and encoded, and the loop awaits the next (lines 111-119)
ReadImage(h) ==
    /\ handlers[h].pc = "reading"
    /\ handlers[h].left > 1
    /\ handlers' = [handlers EXCEPT ![h].left = @ - 1]
    /\ UNCHANGED <<jobs, file, resp, returned, lastSave, loaded, overlapped, models_resp, catalogue>>

\* image.read() raises
ReadFail(h) ==
    /\ handlers[h].pc = "reading"
    /\ Http500(ReadError, "",
               [prompt |-> handlers[h].prompt, model |-> handlers[h].model,
                images |-> TRUE, job_id |-> <<>>])
    /\ handlers' = [handlers EXCEPT ![h] = Idle]
    /\ UNCHANGED <<jobs, file, returned, lastSave, loaded, overlapped, models_resp, catalogue>>

\* the last image is read; the handler runs to its end
ReadLast(h) ==
    /\ handlers[h].pc = "reading"
    /\ handlers[h].left = 1
    /\ Finish([prompt |-> handlers[h].prompt, model |-> handlers[h].model,
               images |-> TRUE, job_id |-> <<>>],
              [handlers EXCEPT ![h] = Idle])

\* GET /jobs (lines 152-154)
list_jobs ==
    /\ Respond("list", 200, NoJob, "", jobs, "", NoReq)
    /\ UNCHANGED <<jobs, file, handlers, returned, lastSave, loaded, overlapped, models_resp, catalogue>>

\* GET /jobs/{job_id} (lines 156-161)
get_job(job_id) ==
    /\ LET i == first_with_id(jobs, job_id, 1)
           req == [NoReq EXCEPT !.job_id = job_id]
       IN IF i = 0
          THEN Respond("get", 404, NoJob, "Job not found", <<>>, "", req)
          ELSE Respond("get", 200, jobs[i], "", <<>>, "", req)
    /\ UNCHANGED <<jobs, file, handlers, returned, lastSave, loaded, overlapped, models_resp, catalogue>>

JobIds == {new_id(t) : t \in Tokens} \cup {<<"unknown-id">>}

-----------------------------------------------------------------------------
(* GET /models.  It reads and writes nothing of the store; SpecModels is    *)
(* this handler alone, over the identifiers the provider may list.         *)

SuffixChars == {"o", "-"}
Suffixes == UNION {[1..n -> SuffixChars] : n \in 0..MaxSuffix}
Keys == {GPT4V, GPT4, GPT35, DALLE3, DALLE2}
\* every table key cut anywhere, followed by a suffix, and an unrelated name
ModelIds ==
    UNION {{SubSeq(k, 1, n) \o s : n \in 0..Len(k), s \in Suffixes} : k \in Keys}
        \cup {<<"w", "h", "i", "s", "p", "e", "r">>}
Listings ==
    UNION {[1..n -> [id : ModelIds, object : {"model"}, created : {0},
                     owned_by : {"openai"}]] : n \in 1..MaxModels}

\* lines 165-271
list_models ==
    /\ models_resp' = [status |-> 200, detail |-> "",
                       models |-> [i \in DOMAIN catalogue |-> format_model(catalogue[i])]]
    /\ UNCHANGED <<jobs, file, handlers, resp, returned, lastSave, loaded, overlapped,
                   catalogue>>

\* openai.models.list() raises (lines 272-273)
list_models_fail(e) ==
    /\ models_resp' = [status |-> 500, detail |-> e, models |-> <<>>]
    /\ UNCHANGED <<jobs, file, handlers, resp, returned, lastSave, loaded, overlapped,
                   catalogue>>

InitModels ==
    /\ file = Absent
    /\ jobs = load_jobs(file)
    /\ loaded = jobs
    /\ handlers = [h \in Handlers |-> Idle]
    /\ resp = NoResp
    /\ returned = <<>>
    /\ lastSave = "none"
    /\ overlapped = FALSE
    /\ models_resp = NoModels
    /\ catalogue \in Listings

NextModels ==
    \/ list_models
    \/ \E e \in UpstreamErrors : list_models_fail(e)

SpecModels == InitModels /\ [][NextModels]_vars

Next ==
    \/ \E p \in Prompts, m \in CallerModels : CreateJobText(p, m)
    \/ \E h \in Handlers, p \in Prompts, m \in CallerModels, n \in 1..MaxImages :
          CreateJobImages(h, p, m, n)
    \/ \E h \in Handlers : ReadImage(h)
    \/ \E h \in Handlers : ReadFail(h)
    \/ \E h \in Handlers : ReadLast(h)
    \/ list_jobs
    \/ \E id \in JobIds : get_job(id)

Spec == Init /\ [][Next]_vars

-----------------------------------------------------------------------------
(* The store *)

\* C1: started with nothing loaded, the store holds exactly the jobs the
\* successful create_job calls returned, in that order, whatever failed calls,
\* listings and look-ups came between, and list_jobs returns exactly them.
C1_ListInCreationOrder ==
    loaded = <<>> =>
        /\ jobs = returned
        /\ resp.op = "list" => (resp.status = 200 /\ resp.list = returned)

C1_Witness ==
    /\ loaded = <<>>
    /\ resp.op = "list"
    /\ Len(resp.list) = 2
    /\ resp.list[1] # resp.list[2]

\* C2: no two jobs of the store have the same identifier.
C2_UniqueIds ==
    \A i, j \in DOMAIN jobs : i # j => jobs[i].id # jobs[j].id

\* C3: get_job of the identifier of a job create_job returned answers that
\* very job, and get_job of an identifier no stored job has answers 404.
C3_GetReturnsCreated ==
    resp.op = "get" =>
        /\ \A i \in DOMAIN returned :
              returned[i].id = resp.req.job_id =>
                  (resp.status = 200 /\ resp.job = returned[i])
        /\ (\A i \in DOMAIN jobs : jobs[i].id # resp.req.job_id) => resp.status = 404

\* C4: a step that ends in the 500 of a create_job leaves the list and the
\* file as they were, the detail is the text of what was raised (the
\* provider's refusal for a model it does not know), and every stored job is
\* "completed" and carries a provider's reply.
C4_FailedCreateLeavesStore ==
    /\ [](\A i \in DOMAIN jobs :
            jobs[i].status = "completed" /\ jobs[i].response \in Responses)
    /\ [](resp.op = "create" /\ resp.status = 500 =>
            /\ resp.detail \in UpstreamErrors \cup {ReadError, ValidationError}
            /\ resp.sent = "no-such-model" => resp.detail = "model_not_found")
    /\ [][resp'.op = "create" /\ resp'.status = 500 =>
            jobs' = jobs /\ file' = file]_vars

C4_Witness ==
    /\ resp.op = "create"
    /\ resp.status = 500
    /\ resp.detail = "model_not_found"
    /\ resp.req.model = "no-such-model"
    /\ Len(jobs) = 1
    /\ file = save_jobs(jobs)

\* C5: after a create_job whose save_jobs wrote the file, load_jobs of the
\* file is the in-memory list: same length, same order, every field equal.
C5_RoundTrip ==
    lastSave = "ok" => load_jobs(file) = jobs

C5_Witness ==
    /\ lastSave = "ok"
    /\ Len(jobs) = 2
    /\ jobs[1].created_at.micro # 0
    /\ jobs[2].created_at.micro = 0
    /\ load_jobs(file) = jobs

C7_LoadDegradesToEmpty ==
    (/\ lastSave = "none"
     /\ \/ file.kind \in {"absent", "corrupt"}
        \/ \E i \in DOMAIN file.data : file.data[i] \in {MissingField, BadTimestamp})
    => (jobs = <<>> /\ loaded = <<>>)

C7_Witness ==
    /\ lastSave = "none"
    /\ file.kind = "json"
    /\ Len(file.data) = 2
    /\ record_ok(file.data[1])
    /\ resp.op = "list"
    /\ resp.list = <<>>

\* C9: a create_job with images sends and records "gpt-4o-2024-11-20"
\* whatever model the caller gave; one without sends and records the caller's.
C9_VisionOverride ==
    (resp.op = "create" /\ (resp.status = 200 \/ resp.detail \in UpstreamErrors)) =>
        /\ resp.sent = (IF resp.req.images THEN "gpt-4o-2024-11-20" ELSE resp.req.model)
        /\ resp.status = 200 => resp.job.model = resp.sent

C9_Witness ==
    /\ resp.op = "create"
    /\ resp.status = 200
    /\ resp.req.images
    /\ resp.req.model = "no-such-model"
    /\ resp.job.model = "gpt-4o-2024-11-20"

\* C10: however the create_job coroutines interleave at their image reads,
\* the list is the loaded jobs followed by the returned jobs, each once, and
\* the file a successful save_jobs wrote last holds the whole list.
C10_NoLostAppend ==
    /\ jobs = loaded \o returned
    /\ lastSave = "ok" =>
          /\ file.kind = "json"
          /\ Len(file.data) = Len(jobs)
          /\ \A i \in DOMAIN jobs : file.data[i].id = jobs[i].id

C10_Witness ==
    /\ overlapped
    /\ Suspended(handlers) = {}
    /\ Len(returned) = 2
    /\ lastSave = "ok"

-----------------------------------------------------------------------------
(* The resolver *)

IsPrefix(p, s) == Len(p) <= Len(s) /\ \A i \in 1..Len(p) : s[i] = p[i]
CapsOf(key) ==
    (CHOOSE e \in {model_capabilities[k] : k \in DOMAIN model_capabilities} :
        e.key = key).caps
DeclarationOrder == <<GPT4V, GPT4, GPT35, DALLE3, DALLE2>>

\* C8: every listed model carries the record of the first key, in the order
\* gpt-4-vision-preview, gpt-4, gpt-3.5-turbo, dall-e-3, dall-e-2, that is a
\* prefix of its identifier (so the gpt-4 record for a gpt-4 identifier that
\* is not a gpt-4-vision-preview one), and the record whose eight values are
\* all "Not found" when no key is a prefix.
C8_FirstPrefixWins ==
    /\ models_resp.status = 200 => Len(models_resp.models) = Len(catalogue)
    /\ \A i \in DOMAIN models_resp.models :
        LET e == models_resp.models[i]
            P == {k \in DOMAIN DeclarationOrder : IsPrefix(DeclarationOrder[k], e.id)}
            c == e.capabilities
        IN /\ e.id = catalogue[i].id
           /\ P # {} =>
                 c = CapsOf(DeclarationOrder[CHOOSE k \in P : \A j \in P : k <= j])
           /\ (IsPrefix(GPT4, e.id) /\ ~IsPrefix(GPT4V, e.id)) =>
                 (c = CapsOf(GPT4) /\ c.image_input = "False")
           /\ IsPrefix(GPT4V, e.id) => c.image_input = "True"
           /\ P = {} =>
                 /\ DOMAIN c = {"text_input", "text_output", "image_input",
                                "image_output", "reasoning", "speed", "pricing"}
                 /\ DOMAIN c.pricing = {"input", "output"}
                 /\ \A f \in DOMAIN c \ {"pricing"} : c[f] = "Not found"
                 /\ \A f \in DOMAIN c.pricing : c.pricing[f] = "Not found"
           /\ e.metrics = [reasoning |-> c.reasoning, speed |-> c.speed]
           /\ e.pricing = c.pricing

C8_Witness ==
    /\ models_resp.status = 200
    /\ models_resp.models # <<>>
    /\ models_resp.models[1].id = GPT4V \o <<"o">>
    /\ models_resp.models[1].capabilities.pricing.image = "0.02"

====
